---- MODULE Spec2Model ----
(***************************************************************************)
(* State machine of the server-availability core of src/src/App.jsx: the   *)
(* React component App with its reconnection driver (wakeUpServer), wake   *)
(* trigger (triggerWakeUp), heartbeat timers (sendKeepAlive,               *)
(* checkServerHealth), session negotiator (initSession) and chat exchange  *)
(* (sendMessage).                                                          *)
(*                                                                         *)
(* Execution is a single-threaded event loop.  One action of the model is  *)
(* one run-to-completion segment of a handler: from an event (a click, a   *)
(* timer firing, a fetch settling, a delay elapsing) up to the next await. *)
(* The state updates of a segment are batched by React into one render;    *)
(* the effects keyed on serverStatus (App.jsx:77-94 and 237-261) run with  *)
(* that render and are part of the action that changed serverStatus.       *)
(*                                                                         *)
(* A callback handed to setInterval keeps the closure of the render that   *)
(* created it: it reads the serverStatus of that render, not the current   *)
(* one.  The model records that captured value (timerClosure, ping.seen,   *)
(* recheck.seen).                                                          *)
(***************************************************************************)
EXTENDS Naturals, Sequences, FiniteSets, TLC

VARIABLES
    serverStatus,      \* useState('checking'): "checking" | "waking" | "ready" | "error"
    messages,          \* useState([]): sequence of [sender, mark, text]
    input,             \* useState(''): text of the input box
    loading,           \* useState(false): a chat reply is awaited
    sessionId,         \* useState(null)
    wakeAttempts,      \* useState(0)
    connectionError,   \* useState(null)
    keepAliveInterval, \* useRef(null): "null" | "live" | "cleared" (the interval id it holds)
    wakeCheckInterval, \* useRef(null): same, for the health re-check interval
    keepAliveTimers,   \* number of keep-alive intervals currently scheduled
    wakeCheckTimers,   \* number of health re-check intervals currently scheduled
    timerClosure,      \* serverStatus seen by the callbacks of the scheduled intervals
    cycles,            \* the invocations of wakeUpServer: slot -> its local state
    ping,              \* the keep-alive request: [pc, seen]
    recheck,           \* the checkServerHealth request: [pc, seen]
    initPending,       \* number of /api/session/init requests in flight
    chat,              \* the chat request: [pc, sessionId]
    sessionKept        \* history: sessionId is the id held when Ready was last entered

vars == <<serverStatus, messages, input, loading, sessionId, wakeAttempts,
          connectionError, keepAliveInterval, wakeCheckInterval, keepAliveTimers,
          wakeCheckTimers, timerClosure, cycles, ping, recheck, initPending, chat,
          sessionKept>>

-----------------------------------------------------------------------------
(* Bounds of the model *)

\* wakeUpServer invocations that can be in flight (or remembered) at once
MaxCycles == 2
\* cap on wakeAttempts: no new cycle starts once it is reached
MaxWake == 2
\* cap on the probes of one cycle answered with a non-success status
MaxStatusFails == 1
\* cap on the length of the message list when a message is sent
MaxMsgs == 3
\* cap on the session-init requests in flight
MaxInit == 1

-----------------------------------------------------------------------------
(* Program constants *)

maxRetries == 5
baseDelay == 3000

Slots == 1..MaxCycles

NullId == "null"
SessionIds == {"abc123", "def456"}

WelcomeText == "Namaste! Main aapka AI Agent hu. Kaise help kar sakta hu?"
BackText == "Server wapas aa gaya! Kaise help karu?"
AsleepText == "Server so raha hai. Wake up kar raha hu... 30 sec wait karo."
GenericErrorText == "Kuch error hua"
ConnectionErrorText == "Connection error. Internet check karo."
TerminalError == "Server wake failed after multiple attempts"

\* `Wake attempt ${retries}/${maxRetries}...`
AttemptError(n) == "Wake attempt " \o ToString(n) \o "/" \o ToString(maxRetries) \o "..."

\* baseDelay * Math.pow(2, retries - 1)
waitTime(retries) == baseDelay * 2 ^ (retries - 1)

\* the cross mark that opens the text of an error message
ErrorMark == "[x] "

\* a message: its text is kept in two parts, the mark it opens with (none,
\* or the cross mark) and the rest
AiMsg(t) == [sender |-> "ai", mark |-> "", text |-> t]
UserMsg(t) == [sender |-> "user", mark |-> "", text |-> t]
ErrorMsg(t) == [sender |-> "ai", mark |-> ErrorMark, text |-> t]

-----------------------------------------------------------------------------
(* Rendering: setServerStatus and the effects keyed on serverStatus *)

\* a cleanup that clears nothing
ClearIntervalSkipped(timers, ref) == timers

\* cleanup of the heartbeat effect: clearInterval on the id the ref holds
ClearInterval(timers, ref) == IF ref = "live" THEN timers - 1 ELSE timers

\* the ref after the cleanup: it keeps the id of the cleared interval
RefAfterClear(ref) == IF ref = "null" THEN "null" ELSE "cleared"

\* the heartbeat effect, re-run when serverStatus changes: the previous
\* run's cleanup, then two new intervals when the new status is 'ready'
HeartbeatEffect(new) ==
    IF new = serverStatus
    THEN UNCHANGED <<keepAliveInterval, wakeCheckInterval, keepAliveTimers,
                     wakeCheckTimers, timerClosure>>
    ELSE /\ keepAliveTimers' = ClearInterval(keepAliveTimers, keepAliveInterval)
                                 + (IF new = "ready" THEN 1 ELSE 0)
         /\ wakeCheckTimers' = ClearInterval(wakeCheckTimers, wakeCheckInterval)
                                 + (IF new = "ready" THEN 1 ELSE 0)
         /\ keepAliveInterval' = IF new = "ready" THEN "live"
                                 ELSE RefAfterClear(keepAliveInterval)
         /\ wakeCheckInterval' = IF new = "ready" THEN "live"
                                 ELSE RefAfterClear(wakeCheckInterval)
         /\ timerClosure' = IF new = "ready" THEN new ELSE timerClosure

\* the session effect, re-run when serverStatus changes: initSession issues
\* its request when the new status is 'ready'
SessionEffect(new) ==
    /\ initPending' = IF new # serverStatus /\ new = "ready"
                      THEN initPending + 1 ELSE initPending
    /\ sessionKept' = IF new # serverStatus /\ new = "ready"
                      THEN sessionId # NullId ELSE sessionKept

\* a state may be entered only while the request counters are within bounds
WithinBounds(new) ==
    (new # serverStatus /\ new = "ready") => initPending < MaxInit

setServerStatus(new) ==
    /\ WithinBounds(new)
    /\ serverStatus' = new
    /\ HeartbeatEffect(new)
    /\ SessionEffect(new)

\* a segment that does not call setServerStatus
StatusUnchanged ==
    UNCHANGED <<serverStatus, keepAliveInterval, wakeCheckInterval, keepAliveTimers,
                wakeCheckTimers, timerClosure, initPending, sessionKept>>

-----------------------------------------------------------------------------
(* Reconnection driver: wakeUpServer *)

IdleCycle ==
    [pc |-> "idle", retries |-> 0, probes |-> 0, failed |-> 0, nonOk |-> 0,
     triggers |-> 0, triggerAfter |-> 0, delays |-> <<>>, result |-> "none",
     sent |-> FALSE]

Running(c) == cycles[c].pc \notin {"idle", "done"}

FreeSlots == {c \in Slots : ~Running(c)}

FreeSlot == CHOOSE c \in FreeSlots : \A d \in FreeSlots : c <= d

CanStart == FreeSlots # {} /\ wakeAttempts < MaxWake

\* the synchronous head of wakeUpServer, up to the first fetch
wakeUpServer ==
    /\ CanStart
    /\ connectionError' = NullId
    /\ wakeAttempts' = wakeAttempts + 1
    /\ cycles' = [cycles EXCEPT ![FreeSlot] =
                     [IdleCycle EXCEPT !.pc = "probe", !.probes = 1]]

\* the catch block from retries++ on, and the code after the loop
AfterFailure(c, cyc) ==
    LET r == cyc.retries + 1 IN
    IF r < maxRetries
    THEN /\ cycles' = [cycles EXCEPT ![c] =
                          [cyc EXCEPT !.retries = r, !.pc = "delay",
                                      !.delays = Append(@, waitTime(r))]]
         /\ connectionError' = AttemptError(r)
         /\ StatusUnchanged
    ELSE /\ cycles' = [cycles EXCEPT ![c] =
                          [cyc EXCEPT !.retries = r, !.pc = "done", !.result = "error"]]
         /\ setServerStatus("error")
         /\ connectionError' = TerminalError

\* a success branch that leaves wakeAttempts as it is
ProbeOkKeepsAttempts(c) ==
    /\ cycles[c].pc = "probe"
    /\ setServerStatus("ready")
    /\ messages' = <<AiMsg(WelcomeText)>>
    /\ cycles' = [cycles EXCEPT ![c] = [@ EXCEPT !.pc = "done", !.result = "ready"]]
    /\ UNCHANGED <<input, loading, sessionId, wakeAttempts, connectionError, ping,
                   recheck, chat>>

\* the health probe answers with a success status and a JSON body
ProbeOk(c) ==
    /\ cycles[c].pc = "probe"
    /\ setServerStatus("ready")
    /\ wakeAttempts' = 0
    /\ messages' = <<AiMsg(WelcomeText)>>
    /\ cycles' = [cycles EXCEPT ![c] = [@ EXCEPT !.pc = "done", !.result = "ready"]]
    /\ UNCHANGED <<input, loading, sessionId, connectionError, ping, recheck, chat>>

\* the health probe answers with a non-success status: the try block ends
\* without a throw and the loop issues the next probe at once
ProbeStatus(c) ==
    /\ cycles[c].pc = "probe"
    /\ cycles[c].nonOk < MaxStatusFails
    /\ cycles' = [cycles EXCEPT ![c] =
                     [@ EXCEPT !.failed = @ + 1, !.nonOk = @ + 1, !.probes = @ + 1]]
    /\ StatusUnchanged
    /\ UNCHANGED <<messages, input, loading, sessionId, wakeAttempts, connectionError,
                   ping, recheck, chat>>

\* the health probe throws: a network error, the abort of the 8 s timeout,
\* or a success status whose body healthRes.json() cannot parse
ProbeThrow(c) ==
    /\ cycles[c].pc = "probe"
    /\ LET cyc == [cycles[c] EXCEPT !.failed = @ + 1] IN
       IF cyc.retries = 0
       THEN /\ setServerStatus("waking")
            /\ cycles' = [cycles EXCEPT ![c] =
                             [cyc EXCEPT !.pc = "wake", !.triggers = @ + 1,
                                         !.triggerAfter = cyc.failed]]
            /\ UNCHANGED connectionError
       ELSE AfterFailure(c, cyc)
    /\ UNCHANGED <<messages, input, loading, sessionId, wakeAttempts, ping, recheck, chat>>

\* triggerWakeUp returns: the promise of the async function resolves with
\* sent, and the caller resumes in a later job
WakeReturns(c, cyc, sent) ==
    /\ cycles' = [cycles EXCEPT ![c] = [cyc EXCEPT !.pc = "woken", !.sent = sent]]
    /\ StatusUnchanged
    /\ UNCHANGED <<messages, input, loading, sessionId, wakeAttempts, connectionError,
                   ping, recheck, chat>>

\* triggerWakeUp: /api/wake answers with a success status: return true
WakeOk(c) ==
    /\ cycles[c].pc = "wake"
    /\ WakeReturns(c, cycles[c], TRUE)

\* triggerWakeUp: /api/wake answers with a non-success status: the try block
\* ends without a throw, the catch with the fallback is skipped, return false
WakeStatus(c) ==
    /\ cycles[c].pc = "wake"
    /\ WakeReturns(c, cycles[c], FALSE)

\* triggerWakeUp: /api/wake throws (network error or the 10 s abort): the
\* fallback request is issued
WakeThrow(c) ==
    /\ cycles[c].pc = "wake"
    /\ cycles' = [cycles EXCEPT ![c] = [@ EXCEPT !.pc = "fallback"]]
    /\ StatusUnchanged
    /\ UNCHANGED <<messages, input, loading, sessionId, wakeAttempts, connectionError,
                   ping, recheck, chat>>

\* triggerWakeUp: /api/trigger-wake answers with a success status: return
\* true
FallbackOk(c) ==
    /\ cycles[c].pc = "fallback"
    /\ WakeReturns(c, cycles[c], TRUE)

\* triggerWakeUp: /api/trigger-wake answers with a non-success status or
\* throws: return false. The request carries no abort signal, so nothing
\* settles it if the backend never answers
FallbackFailed(c) ==
    /\ cycles[c].pc = "fallback"
    /\ WakeReturns(c, cycles[c], FALSE)

\* await triggerWakeUp() resumes: the returned value is dropped and the
\* catch block goes on with retries++
WakeAwaited(c) ==
    /\ cycles[c].pc = "woken"
    /\ AfterFailure(c, [cycles[c] EXCEPT !.sent = FALSE])
    /\ UNCHANGED <<messages, input, loading, sessionId, wakeAttempts, ping, recheck, chat>>

\* the backoff delay elapses: the loop issues the next probe
DelayElapsed(c) ==
    /\ cycles[c].pc = "delay"
    /\ cycles' = [cycles EXCEPT ![c] = [@ EXCEPT !.pc = "probe", !.probes = @ + 1]]
    /\ StatusUnchanged
    /\ UNCHANGED <<messages, input, loading, sessionId, wakeAttempts, connectionError,
                   ping, recheck, chat>>

\* a retry button that restarts from the checking screen
manualWakeUpFromChecking ==
    /\ serverStatus \in {"waking", "error"}
    /\ setServerStatus("checking")
    /\ wakeUpServer
    /\ UNCHANGED <<messages, input, loading, sessionId, ping, recheck, chat>>

\* the retry button of the waking and error screens
manualWakeUp ==
    /\ serverStatus \in {"waking", "error"}
    /\ setServerStatus("waking")
    /\ wakeUpServer
    /\ UNCHANGED <<messages, input, loading, sessionId, ping, recheck, chat>>

-----------------------------------------------------------------------------
(* Keep-alive scheduler: sendKeepAlive and checkServerHealth on their timers *)

Idle == [pc |-> "idle", seen |-> "none"]

\* the keep-alive interval fires: sendKeepAlive of the render that scheduled it
KeepAliveFire ==
    /\ keepAliveTimers > 0
    /\ ping.pc = "idle"
    /\ timerClosure = "ready"
    /\ ping' = [pc |-> "inflight", seen |-> timerClosure]
    /\ StatusUnchanged
    /\ UNCHANGED <<messages, input, loading, sessionId, wakeAttempts, connectionError,
                   cycles, recheck, chat>>

\* /api/keep-alive answers, with any status
PingAnswered ==
    /\ ping.pc = "inflight"
    /\ ping' = Idle
    /\ StatusUnchanged
    /\ UNCHANGED <<messages, input, loading, sessionId, wakeAttempts, connectionError,
                   cycles, recheck, chat>>

\* the condition of the catch block of sendKeepAlive, on the closure's serverStatus
PingSeesReady(seen) == seen = "ready"

\* /api/keep-alive throws: a network error or the abort of the 5 s timeout
PingThrow ==
    /\ ping.pc = "inflight"
    /\ ping' = Idle
    /\ IF PingSeesReady(ping.seen)
       THEN /\ setServerStatus("checking")
            /\ wakeUpServer
       ELSE /\ StatusUnchanged
            /\ UNCHANGED <<wakeAttempts, connectionError, cycles>>
    /\ UNCHANGED <<messages, input, loading, sessionId, recheck, chat>>

\* the health re-check interval fires: checkServerHealth of the render that
\* scheduled it
HealthCheckFire ==
    /\ wakeCheckTimers > 0
    /\ recheck.pc = "idle"
    /\ recheck' = [pc |-> "inflight", seen |-> timerClosure]
    /\ StatusUnchanged
    /\ UNCHANGED <<messages, input, loading, sessionId, wakeAttempts, connectionError,
                   cycles, ping, chat>>

\* a success branch that reads the serverStatus of the latest render
HealthCheckOkLatest ==
    /\ recheck.pc = "inflight"
    /\ recheck' = Idle
    /\ IF serverStatus # "ready"
       THEN /\ setServerStatus("ready")
            /\ messages' = <<AiMsg(BackText)>>
       ELSE /\ StatusUnchanged
            /\ UNCHANGED messages
    /\ UNCHANGED <<input, loading, sessionId, wakeAttempts, connectionError,
                   cycles, ping, chat>>

\* checkServerHealth: /api/health answers with a success status
HealthCheckOk ==
    /\ recheck.pc = "inflight"
    /\ recheck' = Idle
    /\ IF recheck.seen # "ready"
       THEN /\ setServerStatus("ready")
            /\ messages' = <<AiMsg(BackText)>>
       ELSE /\ StatusUnchanged
            /\ UNCHANGED messages
    /\ UNCHANGED <<input, loading, sessionId, wakeAttempts, connectionError,
                   cycles, ping, chat>>

\* checkServerHealth: /api/health answers with a non-success status or throws
HealthCheckFailed ==
    /\ recheck.pc = "inflight"
    /\ recheck' = Idle
    /\ StatusUnchanged
    /\ UNCHANGED <<messages, input, loading, sessionId, wakeAttempts, connectionError,
                   cycles, ping, chat>>

-----------------------------------------------------------------------------
(* Session negotiator: initSession *)

\* a field absent from a JSON body
Absent == "undefined"

\* /api/session/init answers with a JSON body that carries a sessionId:
\* setSessionId(data.sessionId)
InitAnswered(id) ==
    /\ initPending > 0
    /\ initPending' = initPending - 1
    /\ sessionId' = id
    /\ sessionKept' = FALSE
    /\ UNCHANGED <<serverStatus, keepAliveInterval, wakeCheckInterval, keepAliveTimers,
                   wakeCheckTimers, timerClosure>>
    /\ UNCHANGED <<messages, input, loading, wakeAttempts, connectionError,
                   cycles, ping, recheck, chat>>

\* a catch that answers the failure by starting a wake cycle
InitFailedStartsCycle ==
    /\ initPending > 0
    /\ initPending' = initPending - 1
    /\ wakeUpServer
    /\ UNCHANGED <<serverStatus, keepAliveInterval, wakeCheckInterval, keepAliveTimers,
                   wakeCheckTimers, timerClosure, sessionKept>>
    /\ UNCHANGED <<messages, input, loading, sessionId, ping, recheck, chat>>

\* /api/session/init throws (network error, the 10 s abort) or its body does
\* not parse
InitFailed ==
    /\ initPending > 0
    /\ initPending' = initPending - 1
    /\ UNCHANGED <<serverStatus, keepAliveInterval, wakeCheckInterval, keepAliveTimers,
                   wakeCheckTimers, timerClosure, sessionKept>>
    /\ UNCHANGED <<messages, input, loading, sessionId, wakeAttempts, connectionError,
                   cycles, ping, recheck, chat>>

-----------------------------------------------------------------------------
(* Chat exchange: sendMessage *)

Inputs == {"", " hi "}

\* String.prototype.includes
Includes(s, sub) ==
    \E i \in 1..Len(s) :
        /\ i + Len(sub) - 1 <= Len(s)
        /\ SubSeq(s, i, i + Len(sub) - 1) = sub

\* String.prototype.trim
RECURSIVE trim(_)
trim(s) ==
    IF s = "" THEN s
    ELSE IF SubSeq(s, 1, 1) = " " THEN trim(SubSeq(s, 2, Len(s)))
    ELSE IF SubSeq(s, Len(s), Len(s)) = " " THEN trim(SubSeq(s, 1, Len(s) - 1))
    ELSE s

\* the bodies a chat response can carry: unparseable, or JSON with the fields
\* reply, sessionId and error present or absent
Unparseable == [json |-> FALSE, reply |-> Absent, sessionId |-> Absent, error |-> Absent]

Json(s, e) == [json |-> TRUE, reply |-> "reply", sessionId |-> s, error |-> e]

Bodies ==
    {Unparseable,
     Json(Absent, Absent), Json("abc123", Absent), Json("def456", Absent),
     Json(Absent, "bad request"), Json("abc123", "bad request"),
     Json("def456", "bad request")}

Statuses == {200, 400, 503, 504}

\* what fetch rejects with: the abort of the 30 s timeout, or a network-level
\* TypeError whose message is the browser's own
Errors ==
    {[name |-> "AbortError", message |-> "The user aborted a request."],
     [name |-> "TypeError", message |-> "Failed to fetch"],
     [name |-> "TypeError", message |-> "NetworkError when attempting to fetch resource."]}

\* what response.json() throws on an unparseable body
SyntaxError == [name |-> "SyntaxError", message |-> "Unexpected token < in JSON at position 0"]

NoChat == [pc |-> "idle", sessionId |-> "none"]

\* input.trim(), for each text the input box can hold
Trimmed == [t \in Inputs |-> trim(t)]

\* onChange of the input box of the chat screen
SetInput(text) ==
    /\ serverStatus = "ready"
    /\ ~loading
    /\ text # input
    /\ input' = text
    /\ StatusUnchanged
    /\ UNCHANGED <<messages, loading, sessionId, wakeAttempts, connectionError,
                   cycles, ping, recheck, chat>>

\* a send handler that does not look at serverStatus
sendMessageAnyStatus ==
    /\ ~(Trimmed[input] = "" \/ loading)
    /\ Len(messages) + 2 <= MaxMsgs
    /\ messages' = Append(messages, UserMsg(Trimmed[input]))
    /\ input' = ""
    /\ loading' = TRUE
    /\ chat' = [pc |-> "inflight", sessionId |-> sessionId]
    /\ StatusUnchanged
    /\ UNCHANGED <<sessionId, wakeAttempts, connectionError, cycles, ping, recheck>>

\* the synchronous head of sendMessage, up to the fetch
sendMessage ==
    /\ ~(Trimmed[input] = "" \/ serverStatus # "ready" \/ loading)
    /\ Len(messages) + 2 <= MaxMsgs
    /\ messages' = Append(messages, UserMsg(Trimmed[input]))
    /\ input' = ""
    /\ loading' = TRUE
    /\ chat' = [pc |-> "inflight", sessionId |-> sessionId]
    /\ StatusUnchanged
    /\ UNCHANGED <<sessionId, wakeAttempts, connectionError, cycles, ping, recheck>>

\* the branch that classifies the failure as a sleeping backend
ServerAsleep ==
    /\ setServerStatus("waking")
    /\ messages' = Append(messages, AiMsg(AsleepText))
    /\ wakeUpServer
    /\ UNCHANGED sessionId

\* a branch that only appends a message
AppendOnly(msg) ==
    /\ messages' = Append(messages, msg)
    /\ StatusUnchanged
    /\ UNCHANGED <<sessionId, wakeAttempts, connectionError, cycles>>

\* error.message.includes('Failed to fetch'), for each message there is
FailedToFetch ==
    [m \in {e.message : e \in Errors \cup {SyntaxError}} |->
        Includes(m, "Failed to fetch")]

\* the test of the catch block of sendMessage
AsleepError(error) ==
    error.name = "AbortError" \/ FailedToFetch[error.message]

\* a test that takes every non-success status for a sleeping backend
AsleepStatusAny(status) == status # 200

\* the test of the else branch on the response status
AsleepStatus(status) == status = 503 \/ status = 504

\* the catch block of sendMessage
ChatCatch(error) ==
    IF AsleepError(error)
    THEN ServerAsleep
    ELSE AppendOnly(ErrorMsg(ConnectionErrorText))

\* the try block of sendMessage after the fetch resolved
ChatTry(status, data) ==
    IF ~data.json
    THEN ChatCatch(SyntaxError)
    ELSE IF status = 200
    THEN /\ messages' = Append(messages, AiMsg(data.reply))
         /\ sessionId' = IF data.sessionId # Absent THEN data.sessionId ELSE sessionId
         /\ sessionKept' = (data.sessionId = Absent /\ sessionKept)
         /\ UNCHANGED <<serverStatus, keepAliveInterval, wakeCheckInterval,
                        keepAliveTimers, wakeCheckTimers, timerClosure, initPending>>
         /\ UNCHANGED <<wakeAttempts, connectionError, cycles>>
    ELSE IF AsleepStatus(status)
    THEN ServerAsleep
    ELSE AppendOnly(ErrorMsg(IF data.error # Absent THEN data.error
                             ELSE GenericErrorText))

\* /api/chat answers
ChatAnswered(status, data) ==
    /\ chat.pc = "inflight"
    /\ ChatTry(status, data)
    /\ loading' = FALSE
    /\ chat' = NoChat
    /\ UNCHANGED <<input, ping, recheck>>

\* /api/chat throws
ChatThrow(error) ==
    /\ chat.pc = "inflight"
    /\ ChatCatch(error)
    /\ loading' = FALSE
    /\ chat' = NoChat
    /\ UNCHANGED <<input, ping, recheck>>

-----------------------------------------------------------------------------
(* The component after mount: the mount effect has called wakeUpServer *)

Init ==
    /\ serverStatus = "checking"
    /\ messages = <<>>
    /\ input = ""
    /\ loading = FALSE
    /\ sessionId = NullId
    /\ wakeAttempts = 1
    /\ connectionError = NullId
    /\ keepAliveInterval = "null"
    /\ wakeCheckInterval = "null"
    /\ keepAliveTimers = 0
    /\ wakeCheckTimers = 0
    /\ timerClosure = "none"
    /\ cycles = [c \in Slots |->
                    IF c = 1 THEN [IdleCycle EXCEPT !.pc = "probe", !.probes = 1]
                    ELSE IdleCycle]
    /\ ping = Idle
    /\ recheck = Idle
    /\ initPending = 0
    /\ chat = NoChat
    /\ sessionKept = FALSE

\* The whole component.  A health probe answered with a non-success status
\* (ProbeStatus) writes no state of the component and none of the loop but the
\* record of the probes issued, so it is left to SpecDriver, which follows
\* that record.
Next ==
    \/ \E c \in Slots : ProbeOk(c)
    \/ \E c \in Slots : ProbeThrow(c)
    \/ \E c \in Slots : WakeOk(c)
    \/ \E c \in Slots : WakeStatus(c)
    \/ \E c \in Slots : WakeThrow(c)
    \/ \E c \in Slots : FallbackOk(c)
    \/ \E c \in Slots : FallbackFailed(c)
    \/ \E c \in Slots : WakeAwaited(c)
    \/ \E c \in Slots : DelayElapsed(c)
    \/ manualWakeUp
    \/ KeepAliveFire
    \/ PingAnswered
    \/ PingThrow
    \/ HealthCheckFire
    \/ HealthCheckOk
    \/ HealthCheckFailed
    \/ \E id \in SessionIds : InitAnswered(id)
    \/ InitFailed
    \/ \E text \in Inputs : SetInput(text)
    \/ sendMessage
    \/ \E status \in Statuses, data \in Bodies : ChatAnswered(status, data)
    \/ \E error \in Errors : ChatThrow(error)

Spec == Init /\ [][Next]_vars

\* The reconnection driver on its own, with every answer a health probe can
\* get, the retry button, and the session request that each entry into
\* 'ready' issues.
NextDriver ==
    \/ \E c \in Slots : ProbeOk(c)
    \/ \E c \in Slots : ProbeStatus(c)
    \/ \E c \in Slots : ProbeThrow(c)
    \/ \E c \in Slots : WakeOk(c)
    \/ \E c \in Slots : WakeStatus(c)
    \/ \E c \in Slots : WakeThrow(c)
    \/ \E c \in Slots : FallbackOk(c)
    \/ \E c \in Slots : FallbackFailed(c)
    \/ \E c \in Slots : WakeAwaited(c)
    \/ \E c \in Slots : DelayElapsed(c)
    \/ manualWakeUp
    \/ \E id \in SessionIds : InitAnswered(id)
    \/ InitFailed

SpecDriver == Init /\ [][NextDriver]_vars

-----------------------------------------------------------------------------
(* Properties *)

RunningCycles == {c \in Slots : Running(c)}

\* the chat request settles in this step
ChatSettles == chat.pc = "inflight" /\ chat'.pc = "idle"

\* a cycle starts in this step
CycleStarts == \E c \in Slots : ~Running(c) /\ Running(c)'

IsErrorMsg(m) == m.sender = "ai" /\ m.mark = ErrorMark

\* C1: single-flight: at most one reconnection cycle (one wakeUpServer retry
\* loop) is in flight in every reachable state, whatever started it.
C1_SingleFlight == Cardinality(RunningCycles) <= 1

\* C2: a cycle whose probe succeeds after k failed probes (0 <= k <= 4) ends
\* with serverStatus 'ready', wakeAttempts 0 and the welcome message in the
\* message list.
C2_SuccessEndsReady ==
    [][\A c \in Slots :
          (cycles[c].pc = "probe" /\ cycles'[c].pc = "done"
             /\ cycles'[c].result = "ready" /\ cycles'[c].failed <= maxRetries - 1)
          => /\ serverStatus' = "ready"
             /\ wakeAttempts' = 0
             /\ \E i \in 1..Len(messages') : messages'[i] = AiMsg(WelcomeText)]_vars

\* a cycle has ended in 'ready' after four failed probes, and the state is the
\* one it left
C2_Witness ==
    \E c \in Slots :
        /\ cycles[c].result = "ready" /\ cycles[c].failed = maxRetries - 1
        /\ serverStatus = "ready" /\ wakeAttempts = 0
        /\ messages = <<AiMsg(WelcomeText)>>

\* C3: a cycle that ended in 'ready' after k failed probes (1 <= k <= 4; with
\* k = 0 there is no failure to invoke it after) has invoked the wake trigger
\* exactly once, after its first failed probe.
C3_OneTriggerAfterFirstFailure ==
    \A c \in Slots :
        (cycles[c].result = "ready" /\ cycles[c].failed >= 1
           /\ cycles[c].failed <= maxRetries - 1)
        => cycles[c].triggers = 1 /\ cycles[c].triggerAfter = 1

\* C4: a cycle whose five health probes have all failed has ended in 'error'
\* after exactly the delays 3000, 6000, 12000, 24000 ms.
C4_FiveFailuresEndInError ==
    \A c \in Slots :
        cycles[c].failed >= maxRetries
        => /\ cycles[c].pc = "done" /\ cycles[c].result = "error"
           /\ cycles[c].delays = <<3000, 6000, 12000, 24000>>

\* C5: a cycle terminates after issuing at most 5 health probes, whatever the
\* backend answers: no cycle ever issues a sixth probe.
C5_AtMostFiveProbes == \A c \in Slots : cycles[c].probes <= maxRetries

\* C6: the keep-alive timer and the health re-check timer are scheduled if and
\* only if serverStatus is 'ready', and never more than one of each.
C6_TimersIffReady ==
    /\ keepAliveTimers = (IF serverStatus = "ready" THEN 1 ELSE 0)
    /\ wakeCheckTimers = (IF serverStatus = "ready" THEN 1 ELSE 0)

\* 'ready' was entered and left again: both intervals were created and have
\* been cleared
C6_Witness ==
    /\ serverStatus # "ready"
    /\ keepAliveInterval = "cleared" /\ wakeCheckInterval = "cleared"
    /\ keepAliveTimers = 0 /\ wakeCheckTimers = 0

\* C7: a keep-alive ping whose failure or answer is handled after serverStatus
\* has left 'ready' writes nothing and starts no cycle.
C7_StalePingWritesNothing ==
    [][(ping.pc = "inflight" /\ ping'.pc = "idle" /\ serverStatus # "ready")
       => (serverStatus' = serverStatus /\ cycles' = cycles
           /\ wakeAttempts' = wakeAttempts)]_vars

\* C8: a chat exchange answered with status 503 or 504 while 'ready', with a
\* JSON body or not, moves serverStatus to 'waking', appends the 'server
\* asleep' message, starts a cycle and appends no error message.
C8_AsleepStatusWakes ==
    [][\A status \in {503, 504}, data \in Bodies :
          (ChatSettles /\ serverStatus = "ready" /\ ChatAnswered(status, data))
          => /\ serverStatus' = "waking"
             /\ messages' = Append(messages, AiMsg(AsleepText))
             /\ CycleStarts]_vars

\* C9: a chat exchange aborted by its timeout or failed at network level
\* while 'ready' moves serverStatus to 'waking', appends the 'server asleep'
\* message and starts a cycle.
C9_AbortOrNetworkFailureWakes ==
    [][\A error \in Errors :
          (ChatSettles /\ serverStatus = "ready" /\ ChatThrow(error))
          => /\ serverStatus' = "waking"
             /\ messages' = Append(messages, AiMsg(AsleepText))
             /\ CycleStarts]_vars

\* the failures C10 is about: a non-success status other than 503/504, or an
\* error that is neither the timeout abort nor a network-level failure (the
\* SyntaxError of a success answer whose body does not parse)
GenericFailure(status, data) ==
    \/ status = 400
    \/ status = 200 /\ ~data.json

\* C10: a chat failure that is not classified as backend-asleep appends
\* exactly one error message, with the backend's error text when the body
\* carries one, and leaves serverStatus, wakeAttempts and connectionError
\* unchanged; no cycle starts.
C10_GenericFailureFrame ==
    [][ChatSettles =>
       \A status \in Statuses, data \in Bodies :
          (GenericFailure(status, data) /\ ChatAnswered(status, data))
          => /\ Len(messages') = Len(messages) + 1
             /\ SubSeq(messages', 1, Len(messages)) = messages
             /\ IsErrorMsg(messages'[Len(messages')])
             /\ (data.json /\ data.error # Absent)
                  => messages'[Len(messages')] = ErrorMsg(data.error)
             /\ serverStatus' = serverStatus
             /\ wakeAttempts' = wakeAttempts
             /\ connectionError' = connectionError
             /\ cycles' = cycles]_vars

\* an exchange answered 400 {error: "bad request"} has been handled in 'ready'
C10_Witness ==
    /\ serverStatus = "ready"
    /\ ~loading
    /\ Len(messages) >= 2
    /\ messages[Len(messages)] = ErrorMsg("bad request")
    /\ messages[Len(messages) - 1].sender = "user"

\* a step that issues a chat request: sendMessage appends the user's message
SendStep ==
    /\ Len(messages') = Len(messages) + 1
    /\ messages'[Len(messages')].sender = "user"

\* C11: a chat request is issued only with a non-empty trimmed input, in
\* Ready and with no earlier exchange awaiting its reply, so at most one is
\* in flight and none starts in Checking, Waking or Error; the awaiting
\* flag is set exactly while a request is in flight, so every outcome of an
\* exchange clears it.
C11_SendGuardedAndSettled ==
    [][/\ SendStep => /\ Trimmed[input] # ""
                      /\ serverStatus = "ready"
                      /\ ~loading
                      /\ chat.pc = "idle"
       /\ loading' <=> chat'.pc = "inflight"]_vars

\* an exchange has been sent and answered, and the next send is open again
C11_Witness ==
    /\ Len(messages) = 3
    /\ messages[2].sender = "user"
    /\ messages[3].sender = "ai"
    /\ ~loading
    /\ chat.pc = "idle"
    /\ serverStatus = "ready"

\* a click on a retry button: the only step taken in Waking or Error that
\* starts a cycle and touches neither the conversation nor the keep-alive ping
ManualStep ==
    /\ serverStatus \in {"waking", "error"}
    /\ CycleStarts
    /\ messages' = messages
    /\ ping' = ping
    /\ chat' = chat

\* C12: once a cycle has ended in Error, serverStatus stays Error and
\* connectionError stays the terminal message until a manual retry: no other
\* step leaves Error or rewrites the message.
C12_ErrorUntilManualRetry ==
    [][(serverStatus = "error" /\ connectionError = TerminalError /\ ~ManualStep)
          => (serverStatus' = "error" /\ connectionError' = TerminalError)]_vars

\* the session request has settled and left sessionId as it was: the catch
\* of initSession (or an answer that repeats the id already held)
InitSettlesWithoutId ==
    /\ initPending' = initPending - 1
    /\ sessionId' = sessionId

\* C13: a failed session request changes nothing but the request itself:
\* serverStatus stays as it is, no cycle starts, and neither the counter,
\* the error text, the conversation nor the chat exchange is touched.
C13_InitFailureFrame ==
    [][InitSettlesWithoutId =>
          UNCHANGED <<serverStatus, cycles, wakeAttempts, connectionError, messages,
                      input, loading, chat, keepAliveTimers, wakeCheckTimers>>]_vars

\* the session request failed in Ready and a chat request went out after it
\* without a session id
C13_Witness ==
    /\ serverStatus = "ready"
    /\ initPending = 0
    /\ sessionId = NullId
    /\ chat.pc = "inflight"
    /\ chat.sessionId = NullId

\* the probes of cycle c that the loop has counted as failed attempts: its
\* retries, and the failure whose catch block is still waiting for the wake
\* trigger
Counted(c) ==
    cycles[c].retries + (IF cycles[c].pc \in {"wake", "fallback", "woken"} THEN 1 ELSE 0)

\* C14: a probe answered with a non-success status is handled like one that
\* timed out or failed on the network, so every failed probe of a cycle counts
\* as an attempt, and a cycle whose probe has failed has invoked the wake
\* trigger.
C14_StatusFailureIsAFailure ==
    \A c \in Slots :
        /\ cycles[c].failed = Counted(c)
        /\ cycles[c].failed >= 1 => cycles[c].triggers = 1

\* cycle c ends in Ready in this step
EndsReady(c) == cycles[c].pc = "probe" /\ cycles'[c].result = "ready"

\* C15: a successful probe clears connectionError, so whenever a cycle ends
\* in Ready, also after failed attempts, connectionError is null.
C15_ReadyClearsError ==
    [][\A c \in Slots : EndsReady(c) => connectionError' = NullId]_vars

\* C16: whenever the primary wake signal fails, also by a non-success
\* status, the fallback signal is attempted: triggerWakeUp returns straight
\* from the primary signal only with true.
C16_PrimaryFailureTriesFallback ==
    [][\A c \in Slots :
          (cycles[c].pc = "wake" /\ cycles'[c].pc = "woken") => cycles'[c].sent]_vars

\* C17 as stated: a retry click in Waking or Error sets serverStatus to
\* Checking before the new cycle's first probe and adds one to wakeAttempts.
C17_ManualRetryFromChecking ==
    [][ManualStep => (serverStatus' = "checking" /\ wakeAttempts' = wakeAttempts + 1)]_vars

\* C17, amended: a retry click in Waking or Error sets serverStatus to
\* Waking, starts a cycle whose first probe is in flight and adds exactly one
\* to wakeAttempts.
C17_ManualRetryFromWaking ==
    [][ManualStep =>
          /\ serverStatus' = "waking"
          /\ wakeAttempts' = wakeAttempts + 1
          /\ \E c \in Slots : ~Running(c) /\ cycles'[c].pc = "probe"
                                /\ cycles'[c].probes = 1]_vars

\* a retry click has been handled before the backend was ever reached: the
\* second cycle's first probe is in flight in Waking
C17_Witness ==
    /\ messages = <<>>
    /\ serverStatus = "waking"
    /\ wakeAttempts = 2
    /\ \E c \in Slots : cycles[c].pc = "probe" /\ cycles[c].probes = 1

\* a health re-check settles
RecheckSettles == recheck.pc = "inflight" /\ recheck'.pc = "idle"

\* C18: the health re-check scheduled in Ready is advisory: whether it
\* succeeds or fails, it leaves serverStatus, the messages, wakeAttempts and
\* connectionError as they are and starts no cycle.
C18_RecheckFrame ==
    [][RecheckSettles =>
          UNCHANGED <<serverStatus, messages, wakeAttempts, connectionError, cycles>>]_vars

\* the re-check has fired in Ready and its request is in flight
C18_Witness ==
    /\ recheck.pc = "inflight"
    /\ recheck.seen = "ready"
    /\ serverStatus = "ready"

\* C19: after Ready has been left and entered again, no chat request carries
\* the session id held before, unless the backend has returned an id since.
C19_NoStaleSessionId ==
    [][SendStep => ~(sessionKept /\ chat'.sessionId = sessionId)]_vars

\* C20: while serverStatus stays Ready the messages are append-only.
C20_AppendOnlyWhileReady ==
    [][(serverStatus = "ready" /\ serverStatus' = "ready") =>
          /\ Len(messages) <= Len(messages')
          /\ SubSeq(messages', 1, Len(messages)) = messages]_vars

\* a keep-alive ping settles
PingSettles == ping.pc = "inflight" /\ ping'.pc = "idle"

\* C21: serverStatus leaves Ready only when a keep-alive ping fails (to
\* Checking) or a chat exchange fails as backend-asleep (to Waking); no step
\* goes from Ready to Error, and a step that enters Error starts in Waking.
C21_ExitsFromReadyAndIntoError ==
    [][/\ (serverStatus = "ready" /\ serverStatus' # "ready")
          => \/ PingSettles /\ serverStatus' = "checking"
             \/ ChatSettles /\ serverStatus' = "waking"
       /\ (serverStatus # "error" /\ serverStatus' = "error")
          => serverStatus = "waking"]_vars

====
